---- MODULE Spec2Model ----
(***************************************************************************)
(* A model of blackboard_collaborate.py: the WebBrowser wrapper around a   *)
(* Firefox driver, the BlackboardCollaborate stages (sign_in,              *)
(* launch_collaborate, configure_collaborate, wait_until_window_close),    *)
(* run_all with its scratch profile directory, and the interpreter's exit  *)
(* hooks (atexit).                                                         *)
(*                                                                         *)
(* Python values are modelled as follows.  A str built by an f-string is   *)
(* the sequence of its pieces (literal pieces and parameter values, the    *)
(* value of parameter p written "{p}").  bytes are sequences of 0..255.    *)
(* A dict is a function from its keys.  None is the string "None".         *)
(***************************************************************************)
EXTENDS Integers, Sequences, FiniteSets, TLC

\* ------------------------------------------------------------------ bounds

\* Longest byte string given to bytes_to_data_uri.
MaxLen == 3
\* Most polls of wait_until_window_close while nothing happens.
MaxPolls == 2
\* Most calls of WebBrowser.__exit__ a client of the class makes.
MaxCloseCalls == 3

\* ------------------------------------------------------------ Python values

None == "None"

\* `if not mimetype`: None and the empty string are falsy.
Falsy(x) == x \in {None, ""}

\* A preference value (PrefsType = Dict[str, Union[bool, int]]).
PBool(b) == [type |-> "bool", v |-> IF b THEN 1 ELSE 0]
PInt(n) == [type |-> "int", v |-> n]
PStr(s) == [type |-> "str", v |-> s]

\* A value handed to execute_script (JavascriptTypes).
JsStr(s) == [type |-> "str", v |-> s]
JsBool(b) == [type |-> "bool", v |-> <<IF b THEN "true" ELSE "false">>]
NoVal == [type |-> "none", v |-> <<>>]

\* {**a, **b}, and a.update(b): b's value wins for a key of both.
DictMerge(a, b) ==
    [k \in (DOMAIN a) \cup (DOMAIN b) |-> IF k \in DOMAIN b THEN b[k] ELSE a[k]]

\* options.set_preference(key, value)
SetPreference(opts, key, value) ==
    [k \in (DOMAIN opts) \cup {key} |-> IF k = key THEN value ELSE opts[k]]

\* for key, value in d.items(): options.set_preference(key, value)
RECURSIVE SetPreferences(_, _, _)
SetPreferences(opts, d, todo) ==
    IF todo = {} THEN opts
    ELSE LET k == CHOOSE x \in todo : TRUE
         IN  SetPreferences(SetPreference(opts, k, d[k]), d, todo \ {k})

\* self.prefs of WebBrowser.__init__
BaselinePrefs ==
    ("media.navigator.streams.fake" :> PBool(TRUE)) @@
    ("browser.link.open_newwindow" :> PInt(1)) @@
    ("browser.link.open_newwindow.restriction" :> PInt(0)) @@
    ("media.autoplay.default" :> PInt(0))

\* {**self.prefs, **extra_prefs} with the two swapped: the baseline wins.
MergedPrefs_BaselineWins(extra) == DictMerge(extra, BaselinePrefs)

\* {**self.prefs, **extra_prefs}
MergedPrefs(extra) == DictMerge(BaselinePrefs, extra)

\* The preferences run_all adds for raspberry_pi.
RaspberryPiPrefs ==
    ("layers.acceleration.force-enabled" :> PBool(TRUE)) @@
    ("media.ffmpeg.vaapi.enabled" :> PBool(TRUE)) @@
    ("webgl.force-enabled" :> PBool(TRUE)) @@
    ("media.mediasource.webm.enabled" :> PBool(FALSE)) @@
    ("media.webm.enabled" :> PBool(FALSE))

\* The preference run_all adds for hide_ui.
HideUiPrefs ==
    ("toolkit.legacyUserProfileCustomizations.stylesheets" :> PBool(TRUE))

\* extra_prefs as run_all builds it.
RunAllExtraPrefs(raspberry_pi, hide_ui) ==
    LET p0 == <<>>
        p1 == IF raspberry_pi THEN DictMerge(p0, RaspberryPiPrefs) ELSE p0
    IN  IF hide_ui THEN DictMerge(p1, HideUiPrefs) ELSE p1

\* ------------------------------------------------------------------ base64

\* The base64 alphabet (RFC 4648, table 1), as base64.b64encode uses it.
B64Chars ==
    <<"A","B","C","D","E","F","G","H","I","J","K","L","M","N","O","P",
      "Q","R","S","T","U","V","W","X","Y","Z","a","b","c","d","e","f",
      "g","h","i","j","k","l","m","n","o","p","q","r","s","t","u","v",
      "w","x","y","z","0","1","2","3","4","5","6","7","8","9","+","/">>

B64(n) == B64Chars[n + 1]

\* base64.b64encode: three bytes to four characters, the last group padded
\* with "=".
RECURSIVE base64_encode(_)
base64_encode(d) ==
    IF Len(d) = 0 THEN <<>>
    ELSE IF Len(d) = 1 THEN
        <<B64(d[1] \div 4), B64((d[1] % 4) * 16), "=", "=">>
    ELSE IF Len(d) = 2 THEN
        <<B64(d[1] \div 4), B64((d[1] % 4) * 16 + d[2] \div 16),
          B64((d[2] % 16) * 4), "=">>
    ELSE
        <<B64(d[1] \div 4), B64((d[1] % 4) * 16 + d[2] \div 16),
          B64((d[2] % 16) * 4 + d[3] \div 64), B64(d[3] % 64)>>
        \o base64_encode(SubSeq(d, 4, Len(d)))

\* bytes.strip(b"="): every leading and every trailing "=" is removed.
RECURSIVE LStrip(_, _)
LStrip(s, c) ==
    IF Len(s) > 0 /\ s[1] = c THEN LStrip(Tail(s), c) ELSE s

RECURSIVE RStrip(_, _)
RStrip(s, c) ==
    IF Len(s) > 0 /\ s[Len(s)] = c THEN RStrip(SubSeq(s, 1, Len(s) - 1), c) ELSE s

Strip(s, c) == RStrip(LStrip(s, c), c)

\* bytes_to_data_uri without the fallback for a missing MIME type.
bytes_to_data_uri_NoFallback(data, mimetype) ==
    <<"data:", mimetype, ";base64,">> \o Strip(base64_encode(data), "=")

\* WebBrowser.bytes_to_data_uri: f"data:{mimetype};base64,{encoded}".
bytes_to_data_uri(data, mimetype) ==
    LET mt == IF Falsy(mimetype) THEN "application/octet-stream" ELSE mimetype
        encoded == Strip(base64_encode(data), "=")
    IN  <<"data:", mt, ";base64,">> \o encoded

\* ---- reading a data URI back (the yardstick of the round trip)

\* The value of a base64 character.
B64Index(c) == CHOOSE n \in 0..63 : B64(n) = c

DecodeError == <<-1>>

\* base64.b64decode of RFC 4648 text: the length must be a multiple of four
\* ("Incorrect padding" otherwise) and only the last group may be padded.
RECURSIVE base64_decode(_)
base64_decode(s) ==
    IF Len(s) = 0 THEN <<>>
    ELSE IF Len(s) < 4 THEN DecodeError
    ELSE LET a == s[1]
             b == s[2]
             c == s[3]
             e == s[4]
             rest == SubSeq(s, 5, Len(s))
         IN  IF a = "=" \/ b = "=" THEN DecodeError
             ELSE IF c = "=" THEN
                 IF e = "=" /\ Len(rest) = 0
                 THEN <<B64Index(a) * 4 + B64Index(b) \div 16>>
                 ELSE DecodeError
             ELSE IF e = "=" THEN
                 IF Len(rest) = 0
                 THEN <<B64Index(a) * 4 + B64Index(b) \div 16,
                        (B64Index(b) % 16) * 16 + B64Index(c) \div 4>>
                 ELSE DecodeError
             ELSE LET r == base64_decode(rest)
                  IN  IF r = DecodeError THEN DecodeError
                      ELSE <<B64Index(a) * 4 + B64Index(b) \div 16,
                             (B64Index(b) % 16) * 16 + B64Index(c) \div 4,
                             (B64Index(c) % 4) * 64 + B64Index(e)>> \o r

\* The padding a decoder that tolerates its absence puts back.
Repad(s) ==
    s \o [i \in 1..((4 - (Len(s) % 4)) % 4) |-> "="]

\* The text after "base64," and the type between "data:" and ";base64,".
Payload(u) ==
    LET i == CHOOSE j \in 1..Len(u) : u[j] = ";base64,"
    IN  SubSeq(u, i + 1, Len(u))

DeclaredMime(u) ==
    LET i == CHOOSE j \in 1..Len(u) : u[j] = ";base64,"
    IN  SubSeq(u, 2, i - 1)

\* ------------------------------------------------------------------- state

VARIABLES
    pc,             \* where the interpreter is
    caller,         \* who constructs the WebBrowser: "run_all" or "client"
    kw,             \* the keyword arguments conf[class_name] supplies
    extra_prefs,    \* extra_prefs handed to WebBrowser.__init__
    prefs,          \* the preferences set on self.options
    driver,         \* the Firefox process: "none", "running" or "quit"
    alive,          \* the browser window is still open
    sigint,         \* a KeyboardInterrupt is pending
    implicit_wait,  \* the driver's implicit wait, 0 until installed
    maximized,      \* maximize_window has run
    atexit,         \* the registered exit hooks, in registration order
    tempdir,        \* the scratch profile: "none", "exists" or "removed"
    frame,          \* the element-resolution context: "default" or "frame"
    calls,          \* every operation the stages issued, in order
    ip,             \* the next step of the stages
    polls,          \* probes wait_until_window_close has made
    exc,            \* the exception in flight, "none" without one
    result,         \* how the process ended: "running", "ok" or an exception
    teardown_log,   \* the outcome of every driver.__exit__() call
    ret,            \* who called WebBrowser.__exit__
    data,           \* the bytes handed to bytes_to_data_uri
    mimetype,       \* the MIME type handed to bytes_to_data_uri
    uri,            \* the data URI made, <<>> before
    conf            \* a configuration value read, and what the read delivered

vars ==
    <<pc, caller, kw, extra_prefs, prefs, driver, alive, sigint, implicit_wait,
      maximized, atexit, tempdir, frame, calls, ip, polls, exc, result,
      teardown_log, ret, data, mimetype, uri,
      conf>>

\* What bytes_to_data_uri leaves alone (it is a static, pure method).
BrowserVars ==
    <<caller, kw, extra_prefs, prefs, driver, alive, sigint, implicit_wait,
      maximized, atexit, tempdir, frame, calls, ip, polls, exc, result,
      teardown_log, ret, conf>>

\* No configuration value is being read.
NoConf == [option |-> "", value |-> <<>>, delivered |-> [type |-> "none", v |-> <<>>]]

\* The state before anything has run.
Fresh ==
    /\ prefs = <<>>
    /\ driver = "none"
    /\ alive = FALSE
    /\ sigint = FALSE
    /\ implicit_wait = 0
    /\ maximized = FALSE
    /\ atexit = <<>>
    /\ tempdir = "none"
    /\ frame = "default"
    /\ calls = <<>>
    /\ ip = 1
    /\ polls = 0
    /\ exc = "none"
    /\ result = "running"
    /\ teardown_log = <<>>
    /\ ret = "none"
    /\ uri = <<>>

NoKw == [supplied |-> {}, hide_ui |-> FALSE, raspberry_pi |-> FALSE,
         profile_picture |-> FALSE]

\* --------------------------------------------- bytes_to_data_uri on its own

\* The bytes tried: both ends of the range, and values whose bits cross the
\* six-bit boundaries.
ByteValues == {0, 77, 251, 255}

RECURSIVE SeqsUpTo(_, _)
SeqsUpTo(S, n) ==
    IF n = 0 THEN {<<>>}
    ELSE LET shorter == SeqsUpTo(S, n - 1)
         IN  shorter \cup {Append(s, x) : s \in shorter, x \in S}

MimeTypes == {None, "", "image/png"}

InitUri ==
    /\ Fresh
    /\ conf = NoConf
    /\ pc = "uri_call"
    /\ caller = "client"
    /\ kw = NoKw
    /\ extra_prefs = <<>>
    /\ data \in SeqsUpTo(ByteValues, MaxLen)
    /\ mimetype \in MimeTypes

\* A call of WebBrowser.bytes_to_data_uri(data, mimetype).
BytesToDataUri ==
    /\ pc = "uri_call"
    /\ uri' = bytes_to_data_uri(data, mimetype)
    /\ pc' = "uri_done"
    /\ UNCHANGED <<data, mimetype>>
    /\ UNCHANGED BrowserVars

NextUri == BytesToDataUri

SpecUri == InitUri /\ [][NextUri]_vars

\* C10 (as stated): decoding the text after "base64," with base64.b64decode
\* gives back the bytes, and the declared type is the one supplied, or
\* application/octet-stream when none is.
C10_StrictRoundTrip ==
    pc = "uri_done" =>
        /\ base64_decode(Payload(uri)) = data
        /\ DeclaredMime(uri) =
               <<IF Falsy(mimetype) THEN "application/octet-stream" ELSE mimetype>>

\* C10 (amended): the payload carries no "=" padding; decoding it once the
\* padding is put back (as a decoder that tolerates its absence does) gives
\* back the bytes, and the declared type is the one supplied, or
\* application/octet-stream when none is.
C10_RoundTrip ==
    pc = "uri_done" =>
        /\ \A i \in 1..Len(Payload(uri)) : Payload(uri)[i] # "="
        /\ base64_decode(Repad(Payload(uri))) = data
        /\ DeclaredMime(uri) =
               <<IF Falsy(mimetype) THEN "application/octet-stream" ELSE mimetype>>

\* A data URI was made of bytes that need padding, with no type supplied.
C10_Witness ==
    /\ pc = "uri_done"
    /\ Len(data) = 2
    /\ mimetype = None
    /\ Len(Payload(uri)) = 3

\* ------------------------------------------------------------- the stages

\* self.driver.find_element_by_id(id): the locator of the element.
ById(id) == <<"id", id>>

\* The XPath element_by_text builds.
XPath(text, element_type, full_text) ==
    IF full_text
    THEN <<"//", element_type, "[text()=\"", text, "\"]">>
    ELSE <<"//", element_type, "[contains(text(), \"", text, "\")]">>

Step(op, arg, val) == [op |-> op, arg |-> arg, val |-> val]

\* sign_in without the wait for the logout button.
SignInSteps_NoMarker ==
    << Step("navigate", <<"{base_url}">>, NoVal),
       Step("element_by_id", ById("user_id"), NoVal),
       Step("send_keys", ById("user_id"), JsStr(<<"{username}">>)),
       Step("element_by_id", ById("password"), NoVal),
       Step("send_keys", ById("password"), JsStr(<<"{password}">>)),
       Step("element_by_id", ById("entry-login"), NoVal),
       Step("click", ById("entry-login"), NoVal) >>

\* BlackboardCollaborate.sign_in
SignInSteps ==
    << Step("navigate", <<"{base_url}">>, NoVal),
       Step("element_by_id", ById("user_id"), NoVal),
       Step("send_keys", ById("user_id"), JsStr(<<"{username}">>)),
       Step("element_by_id", ById("password"), NoVal),
       Step("send_keys", ById("password"), JsStr(<<"{password}">>)),
       Step("element_by_id", ById("entry-login"), NoVal),
       Step("click", ById("entry-login"), NoVal),
       Step("element_by_id", ById("topframe.logout.label"), NoVal) >>

\* launch_collaborate with the "Join" click before the launch button's.
LaunchSteps_JoinFirst ==
    << Step("navigate",
            <<"{base_url}", "/webapps/collab-ultra/tool/collabultra?course_id=",
              "{course_id}">>, NoVal),
       Step("element_by_id", ById("collabUltraLtiFrame"), NoVal),
       Step("switch_to_frame", ById("collabUltraLtiFrame"), NoVal),
       Step("element_by_text", XPath("Join", "*", FALSE), NoVal),
       Step("click", XPath("Join", "*", FALSE), NoVal),
       Step("sleep", <<"1">>, NoVal),
       Step("element_by_text", XPath("{launch_button}", "*", TRUE), NoVal),
       Step("click", XPath("{launch_button}", "*", TRUE), NoVal),
       Step("switch_to_default", <<>>, NoVal) >>

\* launch_collaborate without the switch back out of the iframe.
LaunchSteps_NoSwitchBack ==
    << Step("navigate",
            <<"{base_url}", "/webapps/collab-ultra/tool/collabultra?course_id=",
              "{course_id}">>, NoVal),
       Step("element_by_id", ById("collabUltraLtiFrame"), NoVal),
       Step("switch_to_frame", ById("collabUltraLtiFrame"), NoVal),
       Step("element_by_text", XPath("{launch_button}", "*", TRUE), NoVal),
       Step("click", XPath("{launch_button}", "*", TRUE), NoVal),
       Step("sleep", <<"1">>, NoVal),
       Step("element_by_text", XPath("Join", "*", FALSE), NoVal),
       Step("click", XPath("Join", "*", FALSE), NoVal) >>

\* BlackboardCollaborate.launch_collaborate
LaunchSteps ==
    << Step("navigate",
            <<"{base_url}", "/webapps/collab-ultra/tool/collabultra?course_id=",
              "{course_id}">>, NoVal),
       Step("element_by_id", ById("collabUltraLtiFrame"), NoVal),
       Step("switch_to_frame", ById("collabUltraLtiFrame"), NoVal),
       Step("element_by_text", XPath("{launch_button}", "*", TRUE), NoVal),
       Step("click", XPath("{launch_button}", "*", TRUE), NoVal),
       Step("sleep", <<"1">>, NoVal),
       Step("element_by_text", XPath("Join", "*", FALSE), NoVal),
       Step("click", XPath("Join", "*", FALSE), NoVal),
       Step("switch_to_default", <<>>, NoVal) >>

\* The value of the local profile_picture_uri, read when the step runs.
PictureUri == [type |-> "var", v |-> <<"profile_picture_uri">>]

\* configure_collaborate without the wait for the tool's loading marker.
ConfigureSteps_NoLoadingMarker(profile_picture) ==
    << Step("setItem", <<"techcheck.initial-techcheck">>, JsStr(<<"complete">>)),
       Step("setItem", <<"techcheck.status">>, JsStr(<<"complete">>)),
       Step("setItem", <<"ftue.announcement.introduction">>, JsBool(TRUE)),
       Step("setItem", <<"chat.defaultchannel">>, JsStr(<<"everyone">>)),
       Step("setItem", <<"profile.notification.roster.visual">>, JsBool(FALSE)) >>
    \o (IF profile_picture
        THEN << Step("read_picture", <<"{profile_picture}">>, NoVal),
                Step("setItem", <<"profile.avatar">>, PictureUri) >>
        ELSE <<>>)
    \o << Step("element_by_id", ById("side-panel-open"), NoVal),
          Step("click", ById("side-panel-open"), NoVal) >>

\* configure_collaborate without the profile picture's entry.
ConfigureSteps_NoAvatar(profile_picture) ==
    << Step("element_by_id", ById("site-loading"), NoVal),
       Step("setItem", <<"techcheck.initial-techcheck">>, JsStr(<<"complete">>)),
       Step("setItem", <<"techcheck.status">>, JsStr(<<"complete">>)),
       Step("setItem", <<"ftue.announcement.introduction">>, JsBool(TRUE)),
       Step("setItem", <<"chat.defaultchannel">>, JsStr(<<"everyone">>)),
       Step("setItem", <<"profile.notification.roster.visual">>, JsBool(FALSE)),
       Step("element_by_id", ById("side-panel-open"), NoVal),
       Step("click", ById("side-panel-open"), NoVal) >>

\* BlackboardCollaborate.configure_collaborate
ConfigureSteps(profile_picture) ==
    << Step("element_by_id", ById("site-loading"), NoVal),
       Step("setItem", <<"techcheck.initial-techcheck">>, JsStr(<<"complete">>)),
       Step("setItem", <<"techcheck.status">>, JsStr(<<"complete">>)),
       Step("setItem", <<"ftue.announcement.introduction">>, JsBool(TRUE)),
       Step("setItem", <<"chat.defaultchannel">>, JsStr(<<"everyone">>)),
       Step("setItem", <<"profile.notification.roster.visual">>, JsBool(FALSE)) >>
    \o (IF profile_picture
        THEN << Step("read_picture", <<"{profile_picture}">>, NoVal),
                Step("setItem", <<"profile.avatar">>, PictureUri) >>
        ELSE <<>>)
    \o << Step("element_by_id", ById("side-panel-open"), NoVal),
          Step("click", ById("side-panel-open"), NoVal) >>

\* The body of run_all's with statement up to wait_until_window_close.
Script == SignInSteps \o LaunchSteps \o ConfigureSteps(kw.profile_picture)

\* An exception leaves run_all's with body and the failed step is tried again.
Raise_Retry(e) ==
    /\ exc' = exc
    /\ pc' = pc
    /\ ret' = ret

\* An exception leaves the body of run_all's with statement: the statement
\* calls browser.__exit__ and nothing of the body runs again.
Raise(e) ==
    /\ exc' = e
    /\ pc' = "exit_driver"
    /\ ret' = "with"

\* The operations that talk to the browser, and the error each raises.
SessionOps ==
    {"navigate", "element_by_id", "element_by_text", "send_keys", "click",
     "switch_to_frame", "switch_to_default", "setItem"}

ErrorOf(op) ==
    IF op \in SessionOps THEN "WebDriverException" ELSE "OSError"

Logged(step, val, ok) ==
    [op |-> step.op, arg |-> step.arg, val |-> val, ctx |-> frame, ok |-> ok]

AtStep(op) ==
    /\ pc = "stages"
    /\ ip \in 1..Len(Script)
    /\ Script[ip].op = op

\* The step returns: the next statement is the next step, or, after the last,
\* wait_until_window_close.
Succeed(val) ==
    /\ ~sigint
    /\ Script[ip].op \in SessionOps => alive
    /\ calls' = Append(calls, Logged(Script[ip], val, TRUE))
    /\ ip' = ip + 1
    /\ pc' = IF ip = Len(Script) THEN "wait_sleep" ELSE "stages"
    /\ UNCHANGED <<exc, ret, sigint>>

\* The step raises: a pending KeyboardInterrupt, or the operation's own error.
FailWith(val) ==
    /\ sigint \/ Script[ip].op # "sleep"
    /\ calls' = Append(calls, Logged(Script[ip], val, FALSE))
    /\ Raise(IF sigint THEN "KeyboardInterrupt" ELSE ErrorOf(Script[ip].op))
    /\ sigint' = FALSE
    /\ UNCHANGED ip

Fail == FailWith(NoVal)

StageRest ==
    <<caller, kw, extra_prefs, prefs, driver, alive, implicit_wait, maximized,
      atexit, tempdir, polls, result, teardown_log, data, mimetype, conf>>

\* WebBrowser.navigate_to_url
NavigateToUrl ==
    /\ AtStep("navigate")
    /\ \/ Succeed(NoVal)
       \/ Fail
    /\ UNCHANGED <<frame, uri>>
    /\ UNCHANGED StageRest

\* WebBrowser.element_by_id
ElementById ==
    /\ AtStep("element_by_id")
    /\ \/ Succeed(NoVal)
       \/ Fail
    /\ UNCHANGED <<frame, uri>>
    /\ UNCHANGED StageRest

\* WebBrowser.element_by_text
ElementByText ==
    /\ AtStep("element_by_text")
    /\ \/ Succeed(NoVal)
       \/ Fail
    /\ UNCHANGED <<frame, uri>>
    /\ UNCHANGED StageRest

\* element.send_keys(text)
SendKeys ==
    /\ AtStep("send_keys")
    /\ \/ Succeed(Script[ip].val)
       \/ Fail
    /\ UNCHANGED <<frame, uri>>
    /\ UNCHANGED StageRest

\* WebBrowser.click
Click ==
    /\ AtStep("click")
    /\ \/ Succeed(NoVal)
       \/ Fail
    /\ UNCHANGED <<frame, uri>>
    /\ UNCHANGED StageRest

\* self.driver.switch_to.frame(element)
SwitchToFrame ==
    /\ AtStep("switch_to_frame")
    /\ \/ Succeed(NoVal) /\ frame' = "frame"
       \/ Fail /\ UNCHANGED frame
    /\ UNCHANGED uri
    /\ UNCHANGED StageRest

\* self.driver.switch_to.default_content()
SwitchToDefault ==
    /\ AtStep("switch_to_default")
    /\ \/ Succeed(NoVal) /\ frame' = "default"
       \/ Fail /\ UNCHANGED frame
    /\ UNCHANGED uri
    /\ UNCHANGED StageRest

\* sleep(1) in launch_collaborate
SettleSleep ==
    /\ AtStep("sleep")
    /\ \/ Succeed(NoVal)
       \/ Fail
    /\ UNCHANGED <<frame, uri>>
    /\ UNCHANGED StageRest

\* The value is turned into its string form before it goes to the script.
ScriptArg_Str(value) == JsStr(value.v)

\* arguments[1] of the execute_script call in __setitem__: the value itself.
ScriptArg(value) == value

\* WebBrowser._LocalStorage.__setitem__: the value goes to execute_script as
\* it is.
SetItem ==
    /\ AtStep("setItem")
    /\ \/ Succeed(ScriptArg(IF Script[ip].val = PictureUri THEN JsStr(uri)
                                                          ELSE Script[ip].val))
       \/ FailWith(ScriptArg(IF Script[ip].val = PictureUri THEN JsStr(uri)
                                                           ELSE Script[ip].val))
    /\ UNCHANGED <<frame, uri>>
    /\ UNCHANGED StageRest

\* guess_mime_type, open(profile_picture, "rb"), file.read() and
\* bytes_to_data_uri in configure_collaborate.
ReadPicture ==
    /\ AtStep("read_picture")
    /\ \/ Succeed(NoVal) /\ uri' = bytes_to_data_uri(data, mimetype)
       \/ Fail /\ UNCHANGED uri
    /\ UNCHANGED frame
    /\ UNCHANGED StageRest

\* ------------------------------------------------ wait_until_window_close

\* The exceptions wait_until_window_close catches, without KeyboardInterrupt.
WaitCaught_NoInterrupt == {"WebDriverException"}

\* except (WebDriverException, KeyboardInterrupt): return
WaitCaught == {"WebDriverException", "KeyboardInterrupt"}

WaitStep(op, arg, ok) ==
    [op |-> op, arg |-> arg, val |-> NoVal, ctx |-> frame, ok |-> ok]

\* An exception inside the try of wait_until_window_close.
WaitRaise(e) ==
    IF e \in WaitCaught
    THEN /\ exc' = "none"
         /\ pc' = "exit_driver"
         /\ ret' = "with"
    ELSE Raise(e)

WaitRest ==
    <<caller, kw, extra_prefs, prefs, driver, alive, implicit_wait, maximized,
      atexit, tempdir, frame, ip, result, teardown_log, data, mimetype, uri,
      conf>>

\* The loop goes round to the probe, with no sleep between two probes.
LoopBack_NoSleep == "wait_probe"

\* while True: the statement after the probe is sleep(5) again.
LoopBack == "wait_sleep"

\* sleep(5) in the loop.
WaitSleep ==
    /\ pc = "wait_sleep"
    /\ IF sigint
       THEN /\ calls' = Append(calls, WaitStep("sleep", <<"5">>, FALSE))
            /\ WaitRaise("KeyboardInterrupt")
            /\ sigint' = FALSE
       ELSE /\ polls < MaxPolls \/ ~alive
            /\ calls' = Append(calls, WaitStep("sleep", <<"5">>, TRUE))
            /\ pc' = "wait_probe"
            /\ UNCHANGED <<exc, ret, sigint>>
    /\ UNCHANGED polls
    /\ UNCHANGED WaitRest

\* self.driver.get_window_position() in the loop: it raises once the window
\* is gone.
WaitProbe ==
    /\ pc = "wait_probe"
    /\ IF sigint
       THEN /\ calls' = Append(calls, WaitStep("get_window_position", <<>>, FALSE))
            /\ WaitRaise("KeyboardInterrupt")
            /\ sigint' = FALSE
            /\ UNCHANGED polls
       ELSE IF ~alive
       THEN /\ calls' = Append(calls, WaitStep("get_window_position", <<>>, FALSE))
            /\ WaitRaise("WebDriverException")
            /\ UNCHANGED <<sigint, polls>>
       ELSE /\ calls' = Append(calls, WaitStep("get_window_position", <<>>, TRUE))
            /\ polls' = polls + 1
            /\ pc' = LoopBack
            /\ UNCHANGED <<exc, ret, sigint>>
    /\ UNCHANGED WaitRest

\* ------------------------------------------------------ __main__ and run_all

\* run_all's keyword-only parameters without a default, course_id left out.
RequiredParams_NoCourseId == {"base_url", "username", "password", "launch_button"}

\* run_all's keyword-only parameters without a default.
RequiredParams == {"base_url", "username", "password", "course_id", "launch_button"}

MainRest ==
    <<caller, kw, extra_prefs, prefs, driver, alive, sigint, implicit_wait,
      maximized, atexit, tempdir, frame, calls, ip, polls, teardown_log, ret,
      data, mimetype, uri,
      conf>>

\* BlackboardCollaborate.run_all(**conf[arguments.class_name]): the call
\* raises TypeError, before the body runs, when a parameter without a default
\* is not supplied.
CallRunAll ==
    /\ pc = "main"
    /\ IF RequiredParams \subseteq kw.supplied
       THEN /\ pc' = "run_all_prefs"
            /\ UNCHANGED exc
       ELSE /\ exc' = "TypeError"
            /\ pc' = "main_except"
    /\ UNCHANGED result
    /\ UNCHANGED MainRest

\* An exception leaves run_all (or the client): `except TypeError` prints its
\* hint and raises again, every other exception passes; the interpreter ends
\* with the exception and runs the exit hooks.
MainExcept ==
    /\ pc = "main_except"
    /\ result' = exc
    /\ pc' = "atexit"
    /\ UNCHANGED exc
    /\ UNCHANGED MainRest

\* run_all returned: exit().
MainExit ==
    /\ pc = "main_exit"
    /\ result' = "ok"
    /\ pc' = "atexit"
    /\ UNCHANGED exc
    /\ UNCHANGED MainRest

\* An exception raised in run_all before its with statement, or in
\* WebBrowser.__init__: no handler is in the way.
RaiseBare(e) ==
    /\ exc' = e
    /\ pc' = "main_except"

\* run_all: extra_prefs from raspberry_pi and hide_ui.
RunAllPrefs ==
    /\ pc = "run_all_prefs"
    /\ extra_prefs' = RunAllExtraPrefs(kw.raspberry_pi, kw.hide_ui)
    /\ pc' = IF kw.hide_ui THEN "tempdir_make" ELSE "init_options"
    /\ UNCHANGED <<caller, kw, prefs, driver, alive, sigint, implicit_wait,
                   maximized, atexit, tempdir, frame, calls, ip, polls, exc,
                   result, teardown_log, ret, data, mimetype, uri,
      conf>>

\* tempdir = TemporaryDirectory()
MakeTempdir ==
    /\ pc = "tempdir_make"
    /\ \/ /\ tempdir' = "exists"
          /\ pc' = "tempdir_register"
          /\ UNCHANGED exc
       \/ /\ RaiseBare("OSError")
          /\ UNCHANGED tempdir
    /\ UNCHANGED <<caller, kw, extra_prefs, prefs, driver, alive, sigint,
                   implicit_wait, maximized, atexit, frame, calls, ip, polls,
                   result, teardown_log, ret, data, mimetype, uri,
      conf>>

\* run_all registers no exit hook for the scratch directory.
TempdirHooks_None == <<>>

\* atexit.register(tempdir.cleanup)
TempdirHooks == <<"tempdir.cleanup">>

RegisterTempdirCleanup ==
    /\ pc = "tempdir_register"
    /\ atexit' = atexit \o TempdirHooks
    /\ pc' = "tempdir_fill"
    /\ UNCHANGED <<caller, kw, extra_prefs, prefs, driver, alive, sigint,
                   implicit_wait, maximized, tempdir, frame, calls, ip, polls,
                   exc, result, teardown_log, ret, data, mimetype, uri,
      conf>>

\* (firefox_profile_path / "chrome").mkdir() and the writing of userChrome.css
FillProfile ==
    /\ pc = "tempdir_fill"
    /\ \/ /\ pc' = "init_options"
          /\ UNCHANGED exc
       \/ RaiseBare("OSError")
    /\ UNCHANGED <<caller, kw, extra_prefs, prefs, driver, alive, sigint,
                   implicit_wait, maximized, atexit, tempdir, frame, calls, ip,
                   polls, result, teardown_log, ret, data, mimetype, uri,
      conf>>

\* ------------------------------------------------------ WebBrowser.__init__

\* self.options, self.prefs and the set_preference loop.
InitOptions ==
    /\ pc = "init_options"
    /\ LET merged == MergedPrefs(extra_prefs)
       IN  prefs' = SetPreferences(<<>>, merged, DOMAIN merged)
    /\ pc' = "init_firefox"
    /\ UNCHANGED <<caller, kw, extra_prefs, driver, alive, sigint, implicit_wait,
                   maximized, atexit, tempdir, frame, calls, ip, polls, exc,
                   result, teardown_log, ret, data, mimetype, uri,
      conf>>

InitRest ==
    <<caller, kw, extra_prefs, prefs, sigint, atexit, tempdir, frame, calls, ip,
      polls, result, teardown_log, ret, data, mimetype, uri,
      conf>>

\* self.driver = webdriver.Firefox(...): the browser starts, or it does not.
LaunchFirefox ==
    /\ pc = "init_firefox"
    /\ \/ /\ driver' = "running"
          /\ alive' = TRUE
          /\ pc' = "init_wait"
          /\ UNCHANGED exc
       \/ /\ RaiseBare("WebDriverException")
          /\ UNCHANGED <<driver, alive>>
    /\ UNCHANGED <<implicit_wait, maximized>>
    /\ UNCHANGED InitRest

\* self.driver.implicitly_wait(45)
ImplicitlyWait ==
    /\ pc = "init_wait"
    /\ \/ /\ alive
          /\ implicit_wait' = 45
          /\ pc' = "init_maximize"
          /\ UNCHANGED exc
       \/ /\ RaiseBare("WebDriverException")
          /\ UNCHANGED implicit_wait
    /\ UNCHANGED <<driver, alive, maximized>>
    /\ UNCHANGED InitRest

\* self.driver.maximize_window()
MaximizeWindow ==
    /\ pc = "init_maximize"
    /\ \/ /\ alive
          /\ maximized' = TRUE
          /\ pc' = "init_register"
          /\ UNCHANGED exc
       \/ /\ RaiseBare("WebDriverException")
          /\ UNCHANGED maximized
    /\ UNCHANGED <<driver, alive, implicit_wait>>
    /\ UNCHANGED InitRest

\* atexit.register(self.__exit__), self.localstorage, and the return to the
\* caller: run_all enters its with statement (__enter__ returns self).
RegisterExit ==
    /\ pc = "init_register"
    /\ atexit' = Append(atexit, "self.__exit__")
    /\ pc' = IF caller = "run_all" THEN "stages" ELSE "client"
    /\ UNCHANGED <<caller, kw, extra_prefs, prefs, driver, alive, sigint,
                   implicit_wait, maximized, tempdir, frame, calls, ip, polls,
                   exc, result, teardown_log, ret, data, mimetype, uri,
      conf>>

\* ------------------------------------------------------ WebBrowser.__exit__

\* How a driver.__exit__() call can end: it returns, or it raises.
TeardownOutcomes == {"ok", "raised"}

\* Where control goes when __exit__ is left, `raised` telling how.  The with
\* statement raises the exception in flight again (__exit__ returns None);
\* the interpreter's exit machinery prints a hook's exception and goes on.
AfterExit(raised) ==
    CASE ret = "with" ->
             IF raised \/ exc # "none" THEN "main_except" ELSE "main_exit"
      [] ret = "atexit" -> "atexit"
      [] OTHER -> "client"

ExitRest ==
    <<caller, kw, extra_prefs, prefs, sigint, implicit_wait, maximized, tempdir,
      frame, calls, ip, polls, result, ret, data, mimetype, uri,
      conf>>

\* self.driver.__exit__(): the driver quits the browser; the call is made
\* whatever the state of the session.
ExitDriver ==
    /\ pc = "exit_driver"
    /\ driver' = "quit"
    /\ alive' = FALSE
    /\ \E o \in TeardownOutcomes :
          /\ teardown_log' = Append(teardown_log, o)
          /\ IF o = "ok"
             THEN /\ pc' = "exit_unregister"
                  /\ UNCHANGED exc
             ELSE /\ pc' = AfterExit(TRUE)
                  /\ exc' = IF ret = "with" THEN "WebDriverException" ELSE exc
    /\ UNCHANGED atexit
    /\ UNCHANGED ExitRest

RECURSIVE Without(_, _)
Without(s, x) ==
    IF s = <<>> THEN <<>>
    ELSE IF s[1] = x THEN Without(Tail(s), x)
    ELSE <<s[1]>> \o Without(Tail(s), x)

\* atexit.unregister(self.__exit__), and the return
ExitUnregister ==
    /\ pc = "exit_unregister"
    /\ atexit' = Without(atexit, "self.__exit__")
    /\ pc' = AfterExit(FALSE)
    /\ UNCHANGED <<driver, alive, teardown_log, exc>>
    /\ UNCHANGED ExitRest

\* ------------------------------------------------------- the exit hooks

AtexitRest ==
    <<caller, kw, extra_prefs, prefs, driver, alive, sigint, implicit_wait,
      maximized, frame, calls, ip, polls, exc, result, teardown_log, data,
      mimetype, uri,
      conf>>

Front(s) == SubSeq(s, 1, Len(s) - 1)

\* The hook is run and leaves the scratch directory in place.
AtexitTempdirCleanup_Keep ==
    /\ pc = "atexit"
    /\ atexit # <<>>
    /\ atexit[Len(atexit)] = "tempdir.cleanup"
    /\ atexit' = Front(atexit)
    /\ UNCHANGED <<pc, ret, tempdir>>
    /\ UNCHANGED AtexitRest

\* The interpreter runs the hooks last registered first: tempdir.cleanup
\* removes the scratch directory.
AtexitTempdirCleanup ==
    /\ pc = "atexit"
    /\ atexit # <<>>
    /\ atexit[Len(atexit)] = "tempdir.cleanup"
    /\ atexit' = Front(atexit)
    /\ tempdir' = "removed"
    /\ UNCHANGED <<pc, ret>>
    /\ UNCHANGED AtexitRest

\* The hook WebBrowser.__init__ registered: self.__exit__().
AtexitBrowserExit ==
    /\ pc = "atexit"
    /\ atexit # <<>>
    /\ atexit[Len(atexit)] = "self.__exit__"
    /\ atexit' = Front(atexit)
    /\ pc' = "exit_driver"
    /\ ret' = "atexit"
    /\ UNCHANGED tempdir
    /\ UNCHANGED AtexitRest

\* No hook is left: the process ends.
AtexitDone ==
    /\ pc = "atexit"
    /\ atexit = <<>>
    /\ pc' = "exited"
    /\ UNCHANGED <<atexit, tempdir, ret>>
    /\ UNCHANGED AtexitRest

\* --------------------------------------------------------- the environment

EnvRest ==
    <<pc, caller, kw, extra_prefs, prefs, driver, implicit_wait, maximized,
      atexit, tempdir, frame, calls, ip, polls, exc, result, teardown_log, ret,
      data, mimetype, uri,
      conf>>

\* The user closes the browser window.
UserClosesWindow ==
    /\ driver = "running"
    /\ alive
    /\ alive' = FALSE
    /\ UNCHANGED sigint
    /\ UNCHANGED EnvRest

\* The process receives SIGINT while a stage or the close-wait runs: the
\* statement running raises KeyboardInterrupt.
Interrupt ==
    /\ pc \in {"stages", "wait_sleep", "wait_probe"}
    /\ ~sigint
    /\ sigint' = TRUE
    /\ UNCHANGED alive
    /\ UNCHANGED EnvRest

\* ------------------------------------------------------- the whole program

\* The profile pictures tried: an empty file, and files whose base64 text
\* needs padding or none.
PictureFiles == {<<>>, <<77>>, <<0, 251, 255>>}

\* The keys a section of the configuration file may hold besides the
\* optional ones.
ConfigKeys == {"base_url", "username", "password", "course_id", "launch_button"}

Init ==
    /\ Fresh
    /\ conf = NoConf
    /\ pc = "main"
    /\ caller = "run_all"
    /\ kw \in [supplied : SUBSET ConfigKeys, hide_ui : BOOLEAN,
               raspberry_pi : BOOLEAN, profile_picture : BOOLEAN]
    /\ extra_prefs = <<>>
    /\ data \in PictureFiles
    /\ mimetype \in {None, "image/png"}
    /\ ~kw.profile_picture => (data = <<>> /\ mimetype = None)

Stage ==
    \/ NavigateToUrl
    \/ ElementById
    \/ ElementByText
    \/ SendKeys
    \/ Click
    \/ SwitchToFrame
    \/ SwitchToDefault
    \/ SettleSleep
    \/ SetItem
    \/ ReadPicture

Construct ==
    \/ InitOptions
    \/ LaunchFirefox
    \/ ImplicitlyWait
    \/ MaximizeWindow
    \/ RegisterExit

Close ==
    \/ ExitDriver
    \/ ExitUnregister

Program ==
    \/ CallRunAll
    \/ MainExcept
    \/ MainExit
    \/ RunAllPrefs
    \/ MakeTempdir
    \/ RegisterTempdirCleanup
    \/ FillProfile
    \/ Construct
    \/ Stage
    \/ WaitSleep
    \/ WaitProbe
    \/ Close
    \/ AtexitTempdirCleanup
    \/ AtexitBrowserExit
    \/ AtexitDone

Next ==
    \/ Program
    \/ UserClosesWindow
    \/ Interrupt

Spec == Init /\ [][Next]_vars

\* The interpreter keeps running the program: a statement that can run does.
LiveSpec == Spec /\ WF_vars(Program)

\* ------------------------------------------- WebBrowser used on its own

\* The overrides tried: keys of the baseline and a key outside it, with
\* values that differ from the baseline's.
OverrideKeys ==
    {"media.autoplay.default", "browser.link.open_newwindow", "webgl.force-enabled"}

OverrideValues == {PInt(0), PInt(2), PBool(FALSE)}

OverrideMaps == UNION {[S -> OverrideValues] : S \in SUBSET OverrideKeys}

InitBrowser ==
    /\ Fresh
    /\ conf = NoConf
    /\ pc = "init_options"
    /\ caller = "client"
    /\ kw = NoKw
    /\ extra_prefs \in OverrideMaps
    /\ data = <<>>
    /\ mimetype = None

ClientRest ==
    <<caller, kw, extra_prefs, prefs, driver, alive, sigint, implicit_wait,
      maximized, atexit, tempdir, frame, calls, ip, polls, exc, teardown_log,
      data, mimetype, uri,
      conf>>

\* The client calls browser.__exit__().
ClientClose ==
    /\ pc = "client"
    /\ Len(teardown_log) < MaxCloseCalls
    /\ pc' = "exit_driver"
    /\ ret' = "client"
    /\ UNCHANGED result
    /\ UNCHANGED ClientRest

\* The client is done and the interpreter exits.
ClientDone ==
    /\ pc = "client"
    /\ result' = "ok"
    /\ pc' = "atexit"
    /\ UNCHANGED ret
    /\ UNCHANGED ClientRest

NextBrowser ==
    \/ Construct
    \/ ClientClose
    \/ ClientDone
    \/ MainExcept
    \/ Close
    \/ AtexitBrowserExit
    \/ AtexitDone
    \/ UserClosesWindow

SpecBrowser == InitBrowser /\ [][NextBrowser]_vars

\* -------------------------------------------------------------- properties

\* ------------------------------------------- BooleanCoercingInterpolation

\* str.casefold on one character of the values tried (for ASCII letters the
\* lowercase letter; everything else stays).
FoldChar(c) ==
    CASE c = "T" -> "t" [] c = "R" -> "r" [] c = "U" -> "u" [] c = "E" -> "e"
      [] c = "F" -> "f" [] c = "A" -> "a" [] c = "L" -> "l" [] c = "S" -> "s"
      [] c = "Y" -> "y" [] c = "N" -> "n" [] c = "O" -> "o" [] c = "J" -> "j"
      [] OTHER -> c

\* value.casefold()
casefold(value) == [i \in 1..Len(value) |-> FoldChar(value[i])]

\* BOOLEANS = {"true": True, "false": False}
BOOLEANS ==
    [k \in {<<"t", "r", "u", "e">>, <<"f", "a", "l", "s", "e">>} |->
        k = <<"t", "r", "u", "e">>]

\* The value is looked up as it is written.
before_get_NoCasefold(value) ==
    IF value \in DOMAIN BOOLEANS
    THEN PBool(BOOLEANS[value])
    ELSE PStr(value)

\* BooleanCoercingInterpolation.before_get: the boolean of BOOLEANS for the
\* case-folded value, the value itself on KeyError.
before_get(value) ==
    IF casefold(value) \in DOMAIN BOOLEANS
    THEN PBool(BOOLEANS[casefold(value)])
    ELSE PStr(value)

\* The uppercase letter of a lowercase one.
UpperOf(c) ==
    CASE c = "t" -> "T" [] c = "r" -> "R" [] c = "u" -> "U" [] c = "e" -> "E"
      [] c = "f" -> "F" [] c = "a" -> "A" [] c = "l" -> "L" [] c = "s" -> "S"
      [] OTHER -> c

\* Every way of writing a lowercase word in upper and lower case.
RECURSIVE Spellings(_)
Spellings(w) ==
    IF w = <<>> THEN {<<>>}
    ELSE {<<c>> \o r : c \in {w[1], UpperOf(w[1])}, r \in Spellings(Tail(w))}

\* Values that are no boolean in any case: empty, too short, too long, the
\* other words and digits for yes and no, a word with a blank inside, and
\* text the program itself uses.
OtherValues ==
    { <<>>, <<"t">>, <<"t", "r", "u">>, <<"T", "R", "U", "E", "E">>,
      <<"f", "a", "l", "s">>, <<"y", "e", "s">>, <<"N", "O">>, <<"o", "n">>,
      <<"1">>, <<"0">>, <<"t", "r", " ", "u", "e">>, <<"T", "r", "u", "e", "!">>,
      <<"J", "o", "i", "n">> }

ConfValues ==
    Spellings(<<"t", "r", "u", "e">>) \cup Spellings(<<"f", "a", "l", "s", "e">>)
        \cup OtherValues

\* The options of a section: run_all's parameters.
ConfOptions ==
    {"base_url", "username", "password", "hide_ui", "raspberry_pi",
     "course_id", "launch_button", "driver_path", "profile_picture"}

InitConf ==
    /\ Fresh
    /\ pc = "conf_get"
    /\ caller = "main"
    /\ kw = NoKw
    /\ extra_prefs = <<>>
    /\ data = <<>>
    /\ mimetype = None
    /\ conf \in [option : ConfOptions, value : ConfValues, delivered : {NoVal}]

\* conf[arguments.class_name][option], as **conf[...] reads it: the parser
\* hands the stored string to before_get and delivers what it returns.
ConfGet ==
    /\ pc = "conf_get"
    /\ conf' = [conf EXCEPT !.delivered = before_get(conf.value)]
    /\ pc' = "conf_done"
    /\ UNCHANGED <<caller, kw, extra_prefs, prefs, driver, alive, sigint,
                   implicit_wait, maximized, atexit, tempdir, frame, calls, ip,
                   polls, exc, result, teardown_log, ret, data, mimetype, uri>>

NextConf == ConfGet

SpecConf == InitConf /\ [][NextConf]_vars


View(c) == <<c.op, c.arg>>

InWait == pc \in {"wait_sleep", "wait_probe"}

\* run_all has just entered wait_until_window_close: every stage returned.
AtWaitEntry == pc = "wait_sleep" /\ polls = 0 /\ calls # <<>> /\ calls[Len(calls)].op # "get_window_position"

IsLocate(c) == c.op \in {"element_by_id", "element_by_text"}

LaunchUrl ==
    <<"{base_url}", "/webapps/collab-ultra/tool/collabultra?course_id=", "{course_id}">>

\* The calls of sign_in and launch_collaborate, in the order claimed.
C1_SignInAndLaunch ==
    << <<"navigate", <<"{base_url}">>>>,
       <<"element_by_id", <<"id", "user_id">>>>,
       <<"send_keys", <<"id", "user_id">>>>,
       <<"element_by_id", <<"id", "password">>>>,
       <<"send_keys", <<"id", "password">>>>,
       <<"element_by_id", <<"id", "entry-login">>>>,
       <<"click", <<"id", "entry-login">>>>,
       <<"element_by_id", <<"id", "topframe.logout.label">>>>,
       <<"navigate", LaunchUrl>>,
       <<"element_by_id", <<"id", "collabUltraLtiFrame">>>>,
       <<"switch_to_frame", <<"id", "collabUltraLtiFrame">>>>,
       <<"element_by_text", <<"//", "*", "[text()=\"", "{launch_button}", "\"]">>>>,
       <<"click", <<"//", "*", "[text()=\"", "{launch_button}", "\"]">>>>,
       <<"sleep", <<"1">>>>,
       <<"element_by_text", <<"//", "*", "[contains(text(), \"", "Join", "\")]">>>>,
       <<"click", <<"//", "*", "[contains(text(), \"", "Join", "\")]">>>>,
       <<"switch_to_default", <<>>>> >>

\* The storage writes, the avatar's only with a profile picture.
C1_StorageWrites(picture) ==
    << <<"setItem", <<"techcheck.initial-techcheck">>>>,
       <<"setItem", <<"techcheck.status">>>>,
       <<"setItem", <<"ftue.announcement.introduction">>>>,
       <<"setItem", <<"chat.defaultchannel">>>>,
       <<"setItem", <<"profile.notification.roster.visual">>>> >>
    \o (IF picture THEN << <<"setItem", <<"profile.avatar">>>> >> ELSE <<>>)

\* The same with the reading of the picture file before the avatar's write.
C1_StorageSteps(picture) ==
    << <<"setItem", <<"techcheck.initial-techcheck">>>>,
       <<"setItem", <<"techcheck.status">>>>,
       <<"setItem", <<"ftue.announcement.introduction">>>>,
       <<"setItem", <<"chat.defaultchannel">>>>,
       <<"setItem", <<"profile.notification.roster.visual">>>> >>
    \o (IF picture
        THEN << <<"read_picture", <<"{profile_picture}">>>>,
                <<"setItem", <<"profile.avatar">>>> >>
        ELSE <<>>)

C1_Expected(picture) ==
    C1_SignInAndLaunch
    \o << <<"element_by_id", <<"id", "site-loading">>>> >>
    \o C1_StorageSteps(picture)
    \o << <<"element_by_id", <<"id", "side-panel-open">>>>,
          <<"click", <<"id", "side-panel-open">>>> >>

Views(s) == [i \in 1..Len(s) |-> View(s[i])]

\* The calls that are neither the wait for the tool's loading marker nor the
\* reading of the picture file (which is no call to the session).
C1_Listed(c) ==
    /\ View(c) # <<"element_by_id", <<"id", "site-loading">>>>
    /\ c.op # "read_picture"

\* C1 (as stated): when run_all enters wait_until_window_close, the calls
\* issued are exactly the listed ones in the listed order, the storage writes
\* last: nothing comes between them and the close-wait.
C1_ClaimedOrder ==
    AtWaitEntry =>
        Views(SelectSeq(calls, C1_Listed))
            = C1_SignInAndLaunch \o C1_StorageWrites(kw.profile_picture)

\* C1 (amended): in every run the calls issued so far are, in order and each
\* once, the first calls of: the sign-in calls, the launch calls, the locate
\* of 'site-loading', the storage writes, and the locate and the click of
\* 'side-panel-open'; wait_until_window_close is entered when, and only
\* when, all of them have been issued and none failed, and only its sleeps
\* and probes follow.
C1_CallOrder ==
    LET expected == C1_Expected(kw.profile_picture)
        n == Len(expected)
    IN  /\ \A i \in 1..Len(calls) :
              IF i <= n THEN View(calls[i]) = expected[i]
              ELSE calls[i].op \in {"sleep", "get_window_position"}
        /\ InWait => /\ Len(calls) >= n
                     /\ \A i \in 1..n : calls[i].ok
        /\ Len(calls) > n => \A i \in 1..n : calls[i].ok

\* Every stage returned in a run with a profile picture, and the close-wait
\* begins.
C1_Witness ==
    /\ AtWaitEntry
    /\ kw.profile_picture
    /\ Len(calls) = 27
    /\ calls[Len(calls)].op = "click"

\* C2: when an operation of a stage has failed, the process has ended only
\* with the driver quit by a call of driver.__exit__() and with the scratch
\* directory, if one was made, removed.
C2_TeardownAfterFailure ==
    (pc = "exited" /\ \E i \in 1..Len(calls) : ~calls[i].ok) =>
        /\ driver = "quit"
        /\ teardown_log # <<>>
        /\ kw.hide_ui => tempdir = "removed"
        /\ tempdir # "exists"

\* A stage of a run with a scratch directory failed and the process ended.
C2_Witness ==
    /\ pc = "exited"
    /\ kw.hide_ui
    /\ tempdir = "removed"
    /\ \E i \in 1..Len(calls) : ~calls[i].ok /\ calls[i].op = "setItem"

\* C3: the process never ends with a browser it launched still running: a
\* teardown runs on every path, also when implicitly_wait or maximize_window
\* fails.
C3_NeverLeaked == pc = "exited" => driver # "running"

\* C4: once a call of __exit__ has closed the session, further calls are
\* no-ops: they reach the driver no more (so cannot raise), the session stays
\* absent and the exit hook stays unregistered.
C4_CloseIdempotent ==
    (caller = "client" /\ teardown_log # <<>> /\ teardown_log[1] = "ok") =>
        /\ Len(teardown_log) = 1
        /\ driver = "quit"
        /\ pc = "client" => \A i \in 1..Len(atexit) : atexit[i] # "self.__exit__"

\* C5: when a parameter without a default is not supplied, no browser is
\* launched, no scratch directory is made, no preference is set and no call
\* is issued, and the process ends with TypeError.
C5_MissingParameterFailsFirst ==
    ~({"base_url", "username", "password", "course_id", "launch_button"}
          \subseteq kw.supplied) =>
        /\ driver = "none"
        /\ tempdir = "none"
        /\ atexit = <<>>
        /\ prefs = <<>>
        /\ calls = <<>>
        /\ pc # "main" => exc = "TypeError"
        /\ pc \in {"main", "main_except", "atexit", "exited"}
        /\ pc \in {"atexit", "exited"} => result = "TypeError"

\* A run without course_id has ended.
C5_Witness ==
    /\ pc = "exited"
    /\ kw.supplied = {"base_url", "username", "password", "launch_button"}
    /\ result = "TypeError"

\* C6: a failed locate is the last call of the run, only the teardown
\* follows it, and no locate and no click is issued twice.
C6_LocatorFailureFatal ==
    /\ \A i \in 1..Len(calls) :
          (IsLocate(calls[i]) /\ ~calls[i].ok) =>
              /\ i = Len(calls)
              /\ pc \in {"exit_driver", "exit_unregister", "main_except",
                         "atexit", "exited"}
              /\ pc \in {"atexit", "exited"} => result # "ok"
    /\ \A i, j \in 1..Len(calls) :
          (i < j /\ (IsLocate(calls[i]) \/ calls[i].op = "click")) =>
              View(calls[i]) # View(calls[j])

\* A locate by text failed, the session was torn down and the process ended.
C6_Witness ==
    /\ pc = "exited"
    /\ calls # <<>>
    /\ calls[Len(calls)].op = "element_by_text"
    /\ ~calls[Len(calls)].ok
    /\ teardown_log # <<>>
    /\ result = "WebDriverException"

\* wait_until_window_close has returned without an exception: the with
\* statement calls __exit__ with none in flight.
WaitReturned == pc = "exit_driver" /\ ret = "with" /\ exc = "none"

\* C7: once the window is gone or an interrupt is pending while
\* wait_until_window_close runs (in its sleep or in its probe), the call
\* returns without an exception.
C7_WaitReturns == (InWait /\ (~alive \/ sigint)) ~> WaitReturned

\* The close-wait returned on an interrupt that came during the probe, after
\* a probe that found the window.
C7_Witness ==
    /\ WaitReturned
    /\ polls >= 1
    /\ calls[Len(calls)].op = "get_window_position"
    /\ ~calls[Len(calls)].ok
    /\ alive

\* The calls of sign_in.
C8_SignInCall(c) ==
    View(c) \in
        { <<"navigate", <<"{base_url}">>>>,
          <<"element_by_id", <<"id", "user_id">>>>,
          <<"send_keys", <<"id", "user_id">>>>,
          <<"element_by_id", <<"id", "password">>>>,
          <<"send_keys", <<"id", "password">>>>,
          <<"element_by_id", <<"id", "entry-login">>>>,
          <<"click", <<"id", "entry-login">>>>,
          <<"element_by_id", <<"id", "topframe.logout.label">>>> }

C8_MarkerLocated(c) ==
    /\ View(c) = <<"element_by_id", <<"id", "topframe.logout.label">>>>
    /\ c.ok

\* C8: the navigation to the launch URL, and every call after sign_in's, is
\* issued only after 'topframe.logout.label' has been located; a run in
\* which the locate failed issues nothing after it.
C8_LaunchAfterMarker ==
    \A i \in 1..Len(calls) :
        /\ ~C8_SignInCall(calls[i]) => \E j \in 1..(i - 1) : C8_MarkerLocated(calls[j])
        /\ (View(calls[i]) = <<"element_by_id", <<"id", "topframe.logout.label">>>>
              /\ ~calls[i].ok) => i = Len(calls)

\* The launch URL has been navigated to.
C8_Witness ==
    \E i \in 1..Len(calls) : View(calls[i]) = <<"navigate", LaunchUrl>> /\ calls[i].ok

\* C9: the preferences set on the browser that was launched are the
\* override's for every key of the override, the baseline's for every other
\* key of the baseline, and there are no others.
C9_OverrideWins ==
    driver # "none" =>
        /\ \A k \in DOMAIN extra_prefs : prefs[k] = extra_prefs[k]
        /\ \A k \in (DOMAIN BaselinePrefs) \ (DOMAIN extra_prefs) :
              prefs[k] = BaselinePrefs[k]
        /\ DOMAIN prefs = (DOMAIN BaselinePrefs) \cup (DOMAIN extra_prefs)

\* A browser was launched with an override that changes a baseline value
\* and adds a key.
C9_Witness ==
    /\ driver = "running"
    /\ DOMAIN extra_prefs = {"media.autoplay.default", "webgl.force-enabled"}
    /\ extra_prefs["media.autoplay.default"] = PInt(2)
    /\ prefs["media.autoplay.default"] = PInt(2)

\* ------------------------------------------------------ the storage writes

\* The storage writes issued so far, in order.
StorageWrites == SelectSeq(calls, LAMBDA c : c.op = "setItem")

\* The strings a boolean would become if it were turned into text.
BooleanTexts == {<<"true">>, <<"false">>, <<"True">>, <<"False">>}

\* C11: every storage write hands its value to the script call with the
\* type the program gave it: the tutorial-skip entry is the boolean true, the
\* roster-notification entry the boolean false, the three fixed text entries
\* and the avatar are strings, and no write carries a boolean as text.
C11_NativeTypes ==
    \A i \in 1..Len(StorageWrites) :
        LET w == StorageWrites[i]
        IN  /\ w.arg = <<"ftue.announcement.introduction">> => w.val = JsBool(TRUE)
            /\ w.arg = <<"profile.notification.roster.visual">> => w.val = JsBool(FALSE)
            /\ w.arg \in {<<"techcheck.initial-techcheck">>, <<"techcheck.status">>}
                   => w.val = JsStr(<<"complete">>)
            /\ w.arg = <<"chat.defaultchannel">> => w.val = JsStr(<<"everyone">>)
            /\ w.arg = <<"profile.avatar">> => w.val = JsStr(uri)
            /\ ~(w.val.type = "str" /\ w.val.v \in BooleanTexts)

\* Both boolean entries have been written.
C11_Witness ==
    /\ \E i \in 1..Len(calls) :
          /\ calls[i].op = "setItem" /\ calls[i].ok
          /\ calls[i].arg = <<"ftue.announcement.introduction">>
          /\ calls[i].val.type = "bool"
    /\ \E i \in 1..Len(calls) :
          /\ calls[i].op = "setItem" /\ calls[i].ok
          /\ calls[i].arg = <<"profile.notification.roster.visual">>
          /\ calls[i].val.type = "bool"

\* ---------------------------------------------------- the scratch directory

\* The session has been torn down and run_all's process has not ended.
ClosedWhileRunning == driver = "quit" /\ result = "running"

\* C13 (as stated): the scratch directory is removed as part of the
\* teardown of the session: in no state is the session closed, the run still
\* executing and the directory still there.
C13_RemovedWithTeardown == ~(ClosedWhileRunning /\ tempdir = "exists")

\* C13 (amended): the scratch directory is removed by the exit hook run_all
\* registered, when the process ends and not before: it is not there once
\* the process has ended, and while the run is still executing, the session
\* closed or not, it has not been removed.
C13_RemovedAtExit ==
    /\ pc = "exited" => tempdir # "exists"
    /\ tempdir = "removed" => result # "running"

\* A run with hide_ui ended with its session torn down and its directory
\* removed.
C13_Witness ==
    /\ pc = "exited"
    /\ kw.hide_ui
    /\ driver = "quit"
    /\ tempdir = "removed"

\* ------------------------------------------------------- the close-wait

\* Every probe of the window comes right after a sleep(5) that ran to its
\* end.
C14_SleepBeforeProbe ==
    \A i \in 1..Len(calls) :
        calls[i].op = "get_window_position" =>
            /\ i > 1
            /\ calls[i - 1].op = "sleep"
            /\ calls[i - 1].arg = <<"5">>
            /\ calls[i - 1].ok

\* wait_until_window_close returns in this step.
C14_Returns == InWait /\ WaitReturned'

\* C14: wait_until_window_close returns only in a step in which the session
\* is gone or an interrupt has been received, and what it returns on is a
\* probe that failed or an interrupted sleep; a probe is issued only after a
\* full sleep of 5, never two in a row.
C14_ReturnsOnlyOnCloseOrInterrupt ==
    /\ [][C14_Returns =>
            /\ sigint \/ ~alive
            /\ ~calls'[Len(calls')].ok
            /\ calls'[Len(calls')].op \in {"get_window_position", "sleep"}
            /\ (calls'[Len(calls')].op = "sleep") => sigint]_vars
    /\ []C14_SleepBeforeProbe

\* The close-wait returned on a probe that failed, after two probes that
\* found the window.
C14_Witness ==
    /\ WaitReturned
    /\ polls = 2
    /\ ~alive
    /\ calls[Len(calls)].op = "get_window_position"
    /\ ~calls[Len(calls)].ok
    /\ calls[Len(calls) - 1].op = "sleep"

\* ------------------------------------------------- the tool's loading marker

C15_LoadingMarker(c) == View(c) = <<"element_by_id", <<"id", "site-loading">>>>

\* C15: a storage write is issued only after 'site-loading' has been
\* located; in a run in which that locate failed no storage write is ever
\* issued and wait_until_window_close is never entered.
C15_WritesAfterLoadingMarker ==
    /\ \A i \in 1..Len(calls) :
          calls[i].op = "setItem" =>
              \E j \in 1..(i - 1) : C15_LoadingMarker(calls[j]) /\ calls[j].ok
    /\ (\E j \in 1..Len(calls) : C15_LoadingMarker(calls[j]) /\ ~calls[j].ok) =>
          /\ StorageWrites = <<>>
          /\ ~InWait
          /\ \A i \in 1..Len(calls) : calls[i].op \notin {"get_window_position"}
          /\ \A i \in 1..Len(calls) : calls[i].arg # <<"5">>

\* The locate of 'site-loading' failed, with the browser still there and no
\* interrupt, and the process has ended.
C15_Witness ==
    /\ pc = "exited"
    /\ calls # <<>>
    /\ C15_LoadingMarker(calls[Len(calls)])
    /\ ~calls[Len(calls)].ok
    /\ exc = "WebDriverException"

\* ------------------------------------------------------ the frame context

\* The locators launch_collaborate resolves inside the tool's iframe.
C16_FrameLocators ==
    {XPath("{launch_button}", "*", TRUE), XPath("Join", "*", FALSE)}

\* launch_collaborate has returned: its last statement, the switch to
\* the default content, has run to its end.
C16_LaunchReturned ==
    \E i \in 1..Len(calls) : calls[i].op = "switch_to_default" /\ calls[i].ok

\* C16: the launch button and 'Join' are located only in the context of the
\* tool's iframe; the locates of sign_in, the locate of 'site-loading' and
\* every storage write are issued only in the default context; and once
\* launch_collaborate has returned the context is the default one.
C16_FrameContext ==
    /\ \A i \in 1..Len(calls) :
          LET c == calls[i]
          IN  /\ (IsLocate(c) /\ c.arg \in C16_FrameLocators) => c.ctx = "frame"
              /\ (IsLocate(c) /\ C8_SignInCall(c)) => c.ctx = "default"
              /\ C15_LoadingMarker(c) => c.ctx = "default"
              /\ c.op = "setItem" => c.ctx = "default"
    /\ C16_LaunchReturned => frame = "default"

\* 'Join' was located inside the iframe and, later, a storage entry written
\* in the default context.
C16_Witness ==
    \E i, j \in 1..Len(calls) :
        /\ i < j
        /\ calls[i].op = "element_by_text"
        /\ calls[i].arg = XPath("Join", "*", FALSE)
        /\ calls[i].ok
        /\ calls[i].ctx = "frame"
        /\ calls[j].op = "setItem"
        /\ calls[j].ok
        /\ calls[j].ctx = "default"

\* ------------------------------------------------------ the profile picture

\* The keys of the five entries configure_collaborate always writes.
C17_FixedKeys ==
    { <<"techcheck.initial-techcheck">>, <<"techcheck.status">>,
      <<"ftue.announcement.introduction">>, <<"chat.defaultchannel">>,
      <<"profile.notification.roster.visual">> }

C17_AvatarWrite(c) == c.op = "setItem" /\ c.arg = <<"profile.avatar">>

\* The text is a data URI of the picture file's bytes, of the type guessed
\* for the file or application/octet-stream when none was guessed.
C17_DataUriOfFile(u) ==
    /\ Len(u) >= 3
    /\ u[1] = "data:"
    /\ \E j \in 1..Len(u) : u[j] = ";base64,"
    /\ base64_decode(Repad(Payload(u))) = data
    /\ DeclaredMime(u) =
           <<IF Falsy(mimetype) THEN "application/octet-stream" ELSE mimetype>>

\* C17: 'profile.avatar' is written only in a run that was given a profile
\* picture, and in every such run that reaches wait_until_window_close it
\* has been written, once; the value written is a string, the data URI of
\* the file's bytes; the write comes after the five fixed entries and before
\* anything of the close-wait.
C17_AvatarWritten ==
    /\ \A i \in 1..Len(calls) :
          C17_AvatarWrite(calls[i]) =>
              /\ kw.profile_picture
              /\ calls[i].val.type = "str"
              /\ C17_DataUriOfFile(calls[i].val.v)
              /\ \A k \in C17_FixedKeys :
                    \E j \in 1..(i - 1) :
                        calls[j].op = "setItem" /\ calls[j].arg = k /\ calls[j].ok
              /\ \A j \in 1..(i - 1) :
                    /\ calls[j].op # "get_window_position"
                    /\ calls[j].arg # <<"5">>
                    /\ ~C17_AvatarWrite(calls[j])
    /\ (InWait \/ WaitReturned) =>
          (kw.profile_picture <=>
              \E i \in 1..Len(calls) : C17_AvatarWrite(calls[i]) /\ calls[i].ok)

\* The avatar was written from a file whose base64 text needs padding, and
\* the close-wait has begun.
C17_Witness ==
    /\ InWait
    /\ data = <<77>>
    /\ mimetype = "image/png"
    /\ \E i \in 1..Len(calls) : C17_AvatarWrite(calls[i]) /\ calls[i].ok

\* ------------------------------------------------------- teardown, once

\* __exit__ is not running.
C18_OutsideExit == pc \notin {"exit_driver", "exit_unregister"}

\* C18: the remote session is torn down at most once in a run: once
\* __exit__ has been called the exit hook is no longer registered, also when
\* driver.__exit__() raised inside it, and the driver is never quit a second
\* time.
C18_TornDownOnce ==
    /\ Len(teardown_log) <= 1
    /\ (teardown_log # <<>> /\ C18_OutsideExit) =>
          \A i \in 1..Len(atexit) : atexit[i] # "self.__exit__"

\* C19: the scratch directory is never removed while the browser that uses
\* it is still running: whenever the directory has been removed, no launched
\* browser is left running.
C19_SessionDownBeforeCleanup ==
    tempdir = "removed" => driver # "running"

\* --------------------------------------------------- configuration values

\* The two texts are the same but for the case of their letters.
SameIgnoringCase(a, b) ==
    /\ Len(a) = Len(b)
    /\ \A i \in 1..Len(a) :
          \/ a[i] = b[i]
          \/ a[i] = UpperOf(b[i])
          \/ b[i] = UpperOf(a[i])

\* C20: a configuration value that is 'true' or 'false' in any case is
\* delivered as the boolean, every other value as the string that was
\* stored, unchanged; and that for every option, the free-text ones
\* (username, password, launch_button) included.
C20_BooleansCoerced ==
    pc = "conf_done" =>
        /\ SameIgnoringCase(conf.value, <<"t", "r", "u", "e">>)
               => conf.delivered = PBool(TRUE)
        /\ SameIgnoringCase(conf.value, <<"f", "a", "l", "s", "e">>)
               => conf.delivered = PBool(FALSE)
        /\ (/\ ~SameIgnoringCase(conf.value, <<"t", "r", "u", "e">>)
            /\ ~SameIgnoringCase(conf.value, <<"f", "a", "l", "s", "e">>))
               => conf.delivered = PStr(conf.value)

\* The password "True" was read, and delivered as a boolean.
C20_Witness ==
    /\ pc = "conf_done"
    /\ conf.option = "password"
    /\ conf.value = <<"T", "r", "u", "e">>
    /\ conf.delivered.type = "bool"

====
